---- MODULE Spec2Model ----
(***************************************************************************)
(* A model of stumpy/mstump.py: the STOMP engine _mstump (the incremental  *)
(* sliding dot-product recurrence over two parity buffers, the exclusion   *)
(* zone, and the best/left/right neighbour selection) and its driver       *)
(* mstump.                                                                 *)
(*                                                                         *)
(* Arrays are functions over 0..n-1, so every index is the source's index. *)
(* Series hold small naturals, which makes every dot product exact.        *)
(* The distance kernel _calculate_squared_distance_profile, the first-row  *)
(* routine, _get_QT and the core.* helpers are imported by the file, not   *)
(* defined in it: the kernel returns any vector of squared distances       *)
(* (finite, or +infinity), _get_QT returns the dot products its contract   *)
(* states. mstump names the engine it calls _stump (line 251); the call is *)
(* taken to run _mstump, the engine this file defines.                     *)
(***************************************************************************)
EXTENDS Integers, FiniteSets, Sequences, TLC

\* ------------------------------------------------------------------ bounds
MaxLen == 6         \* longest series
MaxVal == 1         \* series values are 0..MaxVal

\* A series with at most one non-zero sample (an impulse): a sliding dot
\* product of two impulses is non-zero exactly where the windows align.
Series(n) ==
    {s \in [0..(n-1) -> 0..MaxVal] :
        \A p, q \in 0..(n-1) : (s[p] # 0 /\ s[q] # 0) => p = q}

\* One series per length, for the runs that vary the distances instead.
Ramp(n) == {[p \in 0..(n-1) |-> p % (MaxVal + 1)]}

\* Squared distances the kernel can return: finite values and +infinity.
\* np.inf is greater than every finite value and its square root is itself.
Inf == 99
DVals == {0, 4, Inf}
\* A kernel that returns the same distance everywhere.
DFlat == {4}

None == <<>>                      \* mstump's default for T_B
Size(T) == Cardinality(DOMAIN T)  \* T.shape[0]

VARIABLES
    argT_B, argIgnore,   \* mstump's arguments T_B and ignore_trivial
    dtype_ok,            \* whether core.check_dtype accepts the series
    T_A, T_B, m, ignore_trivial,
    pc,
    k, l, excl_zone, range_start, range_stop,
    QT, QT_first,        \* the engine's parameters
    QT_odd, QT_even,     \* the two parity buffers
    i, pending,          \* the row, and the columns prange has not run yet
    QT_arg,              \* the buffer handed to the distance kernel
    D, P, I, IL, IR,     \* the row's locals
    profile_w,           \* writes per position of the engine's profile/indices
    out_w                \* writes per row of the driver's profile/indices

vars == <<argT_B, argIgnore, dtype_ok, T_A, T_B, m, ignore_trivial, pc,
          k, l, excl_zone, range_start, range_stop, QT, QT_first,
          QT_odd, QT_even, i, pending, QT_arg, D, P, I, IL, IR,
          profile_w, out_w>>

\* ------------------------------------------------------------- pure parts

\* The sliding dot product of query window a of T_B with reference window b
\* of T_A, computed directly.
RECURSIVE DotFrom(_, _, _, _, _, _)
DotFrom(TA, TB, mm, a, b, t) ==
    IF t >= mm THEN 0
    ELSE TB[a + t] * TA[b + t] + DotFrom(TA, TB, mm, a, b, t + 1)

Dot(TA, TB, mm, a, b) == DotFrom(TA, TB, mm, a, b, 0)

\* _get_QT(start, T_A, T_B, m): QT[j] = Q_start . T_A[j..j+m-1] and
\* QT_first[i] = T_B[i..i+m-1] . T_A[0..m-1].
GetQT(start, TA, TB, mm) ==
    [j \in 0..(Size(TA) - mm) |-> Dot(TA, TB, mm, start, j)]

GetQTFirst(TA, TB, mm) ==
    [r \in 0..(Size(TB) - mm) |-> Dot(TA, TB, mm, r, 0)]

\* zone = int(np.ceil(m/4))
Zone(mm) == (mm + 3) \div 4

\* ---------------------------------------------------------- _mstump, parts

\* Fault: the row updates its buffer in place.
ReadBufInPlace(ii, odd, even) == IF ii % 2 = 0 THEN even ELSE odd

\* The buffer row ii reads: QT_odd on an even row, QT_even on an odd row.
ReadBuf(ii, odd, even) == IF ii % 2 = 0 THEN odd ELSE even

\* The buffer row ii writes and hands to the kernel.
LiveBuf(ii, odd, even) == IF ii % 2 = 0 THEN even ELSE odd

\* Fault: the update reads the previous row at its own column, not at the
\* column to its left.
RecurUnshifted(prev, TA, TB, mm, ii, j) ==
    prev[j] - TB[ii - 1] * TA[j - 1] + TB[ii + mm - 1] * TA[j + mm - 1]

\* The right-hand side of the column update of row ii, column j.
Recur(prev, TA, TB, mm, ii, j) ==
    prev[j - 1] - TB[ii - 1] * TA[j - 1] + TB[ii + mm - 1] * TA[j + mm - 1]

\* Fault: no join at the end of the prange loop.
BarrierOpen(pend) == TRUE

\* Lines 126 to 131 run once the prange loop over the columns has returned.
BarrierPassed(pend) == pend = {}

\* Fault: the loop over the rows includes range_stop.
InRangeInclusive(ii, stop) == ii <= stop

\* for i in range(range_start, range_stop)
InRange(ii, stop) == ii < stop

Max(a, b) == IF a >= b THEN a ELSE b
Min(a, b) == IF a <= b THEN a ELSE b

ZoneStart(ii, zone) == Max(0, ii - zone)
ZoneStop(ii, zone) == ii + zone + 1

\* D[zone_start:zone_stop] = np.inf, when ignore_trivial.
Mask(Dk, ii, zone, trivial) ==
    IF trivial
    THEN [j \in DOMAIN Dk |->
            IF ZoneStart(ii, zone) <= j /\ j < ZoneStop(ii, zone)
            THEN Inf ELSE Dk[j]]
    ELSE Dk

\* Fault: an argmin that keeps the last of equal minima.
RECURSIVE ArgminLastScan(_, _, _, _)
ArgminLastScan(Dv, j, hi, best) ==
    IF j >= hi THEN best
    ELSE ArgminLastScan(Dv, j + 1, hi, IF Dv[j] <= Dv[best] THEN j ELSE best)

ArgminLast(Dv, lo, hi) ==
    ArgminLastScan(Dv, lo + 1, IF hi <= Cardinality(DOMAIN Dv) THEN hi
                                ELSE Cardinality(DOMAIN Dv), lo) - lo

\* np.argmin(Dv[lo:hi]): a scan that keeps the first strictly smaller value;
\* the slice is clipped to the length of Dv and the result is an index of
\* the slice.
RECURSIVE ArgminScan(_, _, _, _)
ArgminScan(Dv, j, hi, best) ==
    IF j >= hi THEN best
    ELSE ArgminScan(Dv, j + 1, hi, IF Dv[j] < Dv[best] THEN j ELSE best)

Argmin(Dv, lo, hi) == ArgminScan(Dv, lo + 1, Min(hi, Size(Dv)), lo) - lo

\* np.sqrt on the kernel's values.
Sqrt(d) == IF d = Inf THEN Inf ELSE CHOOSE r \in 0..d : r * r = d

\* Fault: the left neighbour is searched over the whole profile.
LeftIndexWhole(Dv, ii, zone, trivial) ==
    IF trivial /\ ii > 0
    THEN LET a == Argmin(Dv, 0, Size(Dv))
         IN  IF ZoneStart(ii, zone) <= a /\ a < ZoneStop(ii, zone)
             THEN -1 ELSE a
    ELSE -1

\* Lines 141 to 146.
LeftIndex(Dv, ii, zone, trivial) ==
    IF trivial /\ ii > 0
    THEN LET a == Argmin(Dv, 0, ii)
         IN  IF ZoneStart(ii, zone) <= a /\ a < ZoneStop(ii, zone)
             THEN -1 ELSE a
    ELSE -1

\* Fault: the right neighbour is left as an index of the slice D[i+1:].
RightIndexNoOffset(Dv, ii, zone, trivial) ==
    IF trivial /\ ii + 1 < Size(Dv)
    THEN LET a == Argmin(Dv, ii + 1, Size(Dv))
         IN  IF ZoneStart(ii, zone) <= a /\ a < ZoneStop(ii, zone)
             THEN -1 ELSE a
    ELSE -1

\* Lines 148 to 153.
RightIndex(Dv, ii, zone, trivial) ==
    IF trivial /\ ii + 1 < Size(Dv)
    THEN LET a == ii + 1 + Argmin(Dv, ii + 1, Size(Dv))
         IN  IF ZoneStart(ii, zone) <= a /\ a < ZoneStop(ii, zone)
             THEN -1 ELSE a
    ELSE -1

\* Fault: the caller's ignore_trivial is kept when T_B is omitted.
IgnoreAsPassed(TB, ignore) == ignore

\* Lines 216 to 218: an omitted T_B makes the call a self-join.
EffectiveT_B(TA, TB) == IF TB = None THEN TA ELSE TB
EffectiveIgnore(TB, ignore) == IF TB = None THEN TRUE ELSE ignore

\* ------------------------------------------------------------------- Init

Lens == 1..MaxLen

\* A call of the driver: mstump(T_A, m, T_B, ignore_trivial), on series
\* drawn from S.
InitDriver(S) ==
    /\ pc = "mstump"
    /\ T_A \in S
    /\ \/ argT_B = None
       \/ argT_B \in S
    /\ argIgnore \in BOOLEAN
    /\ dtype_ok \in BOOLEAN
    /\ m \in 1..(MaxLen + 1)
    /\ T_B = argT_B
    /\ ignore_trivial = argIgnore
    /\ k = 0 /\ l = 0 /\ excl_zone = 0
    /\ range_start = 0 /\ range_stop = 0
    /\ QT = <<>> /\ QT_first = <<>>

\* A call of the engine on a later slice of the rows, as the distributed
\* variant makes it: QT holds the dot products of row range_start - 1.
InitEngine(S) ==
    /\ pc = "_mstump"
    /\ T_A \in S
    /\ T_B \in S
    /\ argT_B = T_B
    /\ ignore_trivial \in BOOLEAN
    /\ argIgnore = ignore_trivial
    /\ dtype_ok = TRUE
    /\ m \in 2..Min(Size(T_A), Size(T_B))
    /\ k = Size(T_A) - m + 1
    /\ l = Size(T_B) - m + 1
    /\ excl_zone = Zone(m)
    /\ range_start \in 2..l
    /\ range_stop = l
    /\ QT = GetQT(range_start - 1, T_A, T_B, m)
    /\ QT_first = GetQTFirst(T_A, T_B, m)

InitLocals ==
    /\ QT_odd = <<>> /\ QT_even = <<>>
    /\ i = 0 /\ pending = {}
    /\ QT_arg = <<>> /\ D = <<>>
    /\ P = 0 /\ I = 0 /\ IL = -1 /\ IR = -1
    /\ profile_w = <<>> /\ out_w = <<>>

\* Every impulse series.
Impulses == UNION {Series(n) : n \in Lens}
Init == (InitDriver(Impulses) \/ InitEngine(Impulses)) /\ InitLocals

\* One series per length.
Ramps == UNION {Ramp(n) : n \in Lens}
InitSel == (InitDriver(Ramps) \/ InitEngine(Ramps)) /\ InitLocals

\* ----------------------------------------------------------------- mstump

engineVars == <<QT_odd, QT_even, i, pending, QT_arg, D, P, I, IL, IR, profile_w>>
callVars == <<k, l, excl_zone, range_start, range_stop, QT, QT_first>>
argVars == <<argT_B, argIgnore, dtype_ok, T_A, m>>

\* Lines 215 to 227: the dtype checks and the self-join default. The two
\* warnings are logged and change nothing.
CheckInputs ==
    /\ pc = "mstump"
    /\ IF dtype_ok
       THEN /\ T_B' = EffectiveT_B(T_A, argT_B)
            /\ ignore_trivial' = EffectiveIgnore(argT_B, argIgnore)
            /\ pc' = "stats"
       ELSE /\ pc' = "InvalidInputError"
            /\ UNCHANGED <<T_B, ignore_trivial>>
    /\ UNCHANGED <<argVars, callVars, engineVars, out_w>>

\* Lines 229 to 242: the sizes, the zone, the mean/std tables and the output
\* arrays. No window of length m exists in a series shorter than m: the
\* collaborator that builds the windows fails there.
ComputeStats ==
    /\ pc = "stats"
    /\ k' = Size(T_A) - m + 1
    /\ l' = Size(T_B) - m + 1
    /\ excl_zone' = Zone(m)
    /\ IF m > Size(T_A) \/ m > Size(T_B)
       THEN /\ pc' = "WindowError"
            /\ out_w' = out_w
       ELSE /\ pc' = "first_row"
            /\ out_w' = [r \in 0..(Size(T_B) - m) |-> 0]
    /\ UNCHANGED <<argVars, T_B, ignore_trivial, range_start, range_stop,
                   QT, QT_first, engineVars>>

\* Lines 241 to 248: row 0 by the first-row routine, then the seeds of the
\* recurrence from _get_QT(0, ...).
FirstRow ==
    /\ pc = "first_row"
    /\ out_w' = [out_w EXCEPT ![0] = @ + 1]
    /\ QT' = GetQT(0, T_A, T_B, m)
    /\ QT_first' = GetQTFirst(T_A, T_B, m)
    /\ range_start' = 0 + 1
    /\ range_stop' = l
    /\ pc' = "_mstump"
    /\ UNCHANGED <<argVars, T_B, ignore_trivial, k, l, excl_zone, engineVars>>

\* ---------------------------------------------------------------- _mstump

\* The head of the loop over the rows: the columns 1..k-1 of row ii are
\* handed to prange, or the loop ends.
RowHead(ii) ==
    IF InRange(ii, range_stop)
    THEN /\ pc' = "cols"
         /\ pending' = 1..(k - 1)
    ELSE /\ pc' = "return"
         /\ pending' = {}

\* Lines 106 to 111.
Enter ==
    /\ pc = "_mstump"
    /\ QT_odd' = QT
    /\ QT_even' = QT
    /\ profile_w' = [r \in 0..(range_stop - range_start - 1) |-> 0]
    /\ i' = range_start
    /\ RowHead(range_start)
    /\ UNCHANGED <<argVars, T_B, ignore_trivial, callVars, QT_arg, D, P, I,
                   IL, IR, out_w>>

\* Lines 114 to 124: one iteration of the prange loop, in any order.
ColumnUpdate(j) ==
    /\ pc = "cols"
    /\ j \in pending
    /\ LET v == Recur(ReadBuf(i, QT_odd, QT_even), T_A, T_B, m, i, j)
       IN  IF i % 2 = 0
           THEN /\ QT_even' = [QT_even EXCEPT ![j] = v]
                /\ QT_odd' = QT_odd
           ELSE /\ QT_odd' = [QT_odd EXCEPT ![j] = v]
                /\ QT_even' = QT_even
    /\ pending' = pending \ {j}
    /\ UNCHANGED <<argVars, T_B, ignore_trivial, pc, callVars, i, QT_arg, D,
                   P, I, IL, IR, profile_w, out_w>>

\* Lines 126, 127 and 130: the first column of the live buffer.
SeedFirst ==
    /\ pc = "cols"
    /\ BarrierPassed(pending)
    /\ IF i % 2 = 0
       THEN /\ QT_even' = [QT_even EXCEPT ![0] = QT_first[i]]
            /\ QT_odd' = QT_odd
       ELSE /\ QT_odd' = [QT_odd EXCEPT ![0] = QT_first[i]]
            /\ QT_even' = QT_even
    /\ pc' = "kernel"
    /\ UNCHANGED <<argVars, T_B, ignore_trivial, callVars, i, pending, QT_arg,
                   D, P, I, IL, IR, profile_w, out_w>>

\* Lines 128 to 153: the kernel's distance profile of the live buffer,
\* masked over the exclusion zone, and the row's best, left and right
\* neighbours.
Profile(R) ==
    /\ pc = "kernel"
    /\ QT_arg' = LiveBuf(i, QT_odd, QT_even)
    /\ \E Dk \in [0..(k - 1) -> R] :
          LET Dm == Mask(Dk, i, excl_zone, ignore_trivial)
          IN  /\ D' = Dm
              /\ I' = Argmin(Dm, 0, Size(Dm))
              /\ P' = Sqrt(Dm[Argmin(Dm, 0, Size(Dm))])
              /\ IL' = LeftIndex(Dm, i, excl_zone, ignore_trivial)
              /\ IR' = RightIndex(Dm, i, excl_zone, ignore_trivial)
    /\ pc' = "emit"
    /\ UNCHANGED <<argVars, T_B, ignore_trivial, callVars, QT_odd, QT_even,
                   i, pending, profile_w, out_w>>

\* Lines 155 to 157, and the step to the next row. The row's locals are
\* dead from here on: the next row assigns each before it reads it.
Emit ==
    /\ pc = "emit"
    /\ profile_w' = [profile_w EXCEPT ![i - range_start] = @ + 1]
    /\ i' = i + 1
    /\ RowHead(i + 1)
    /\ QT_arg' = <<>> /\ D' = <<>>
    /\ P' = 0 /\ I' = 0 /\ IL' = -1 /\ IR' = -1
    /\ UNCHANGED <<argVars, T_B, ignore_trivial, callVars, QT_odd, QT_even,
                   out_w>>

\* Line 159, and for the driver lines 250 to 262: the engine's rows become
\* rows start+1 .. stop-1 of the result.
Return ==
    /\ pc = "return"
    /\ IF out_w = <<>>
       THEN /\ pc' = "returned"
            /\ out_w' = out_w
       ELSE /\ pc' = "done"
            /\ out_w' = [r \in DOMAIN out_w |->
                            IF r >= range_start /\ r < range_stop
                            THEN out_w[r] + profile_w[r - range_start]
                            ELSE out_w[r]]
    /\ UNCHANGED <<argVars, T_B, ignore_trivial, callVars, engineVars>>

Engine ==
    \/ Enter
    \/ \E j \in 1..MaxLen : ColumnUpdate(j)
    \/ SeedFirst
    \/ Emit
    \/ Return

Driver ==
    \/ CheckInputs
    \/ ComputeStats
    \/ FirstRow

\* The arithmetic of the recurrence on every impulse series, under a kernel
\* that returns one distance everywhere.
Next == Driver \/ Engine \/ Profile(DFlat)

Spec == Init /\ [][Next]_vars

\* The selection of the neighbours on every distance profile, on one series
\* per length.
NextSel == Driver \/ Engine \/ Profile(DVals)

SpecSel == InitSel /\ [][NextSel]_vars

\* ------------------------------------------------------------- properties

\* The dot product of query window a with reference window b, term by term.
Direct(a, b) ==
    LET RECURSIVE Sum(_)
        Sum(t) == IF t = 0 THEN 0
                  ELSE Sum(t - 1) + T_B[a + t - 1] * T_A[b + t - 1]
    IN  Sum(m)

\* C1. Recurrence/brute-force equivalence: for every range_start >= 1 and
\* every row i, the buffer handed to the distance kernel (QT_even on an even
\* row, QT_odd on an odd row) holds at every column j the directly computed
\* dot product of query window i with reference window j.
C1_RecurrenceEqualsDirect ==
    pc = "emit" =>
        /\ QT_arg = (IF i % 2 = 0 THEN QT_even ELSE QT_odd)
        /\ DOMAIN QT_arg = 0..(k - 1)
        /\ \A j \in 0..(k - 1) : QT_arg[j] = Direct(i, j)

\* A row of each parity after a start at an even row, with a non-zero dot
\* product away from column 0.
C1_Witness ==
    /\ pc = "emit"
    /\ range_start = 2
    /\ i = 3
    /\ m >= 2
    /\ \E j \in 1..(k - 1) : QT_arg[j] > 0

\* C4. Invalid window length is rejected eagerly: with m < 2 or m greater
\* than the length of T_A or of T_B, the driver ends in InvalidInputError
\* before the mean/std tables, the first row or any engine row is computed.
C4_InvalidWindowRejected ==
    (pc # "mstump" /\ (m < 2 \/ m > Size(T_A) \/ m > Size(T_B)))
        => pc = "InvalidInputError"

\* C6. Called without T_B, the driver runs a self-join whatever the caller
\* passed as ignore_trivial: T_B is T_A, ignore_trivial is true, and every
\* row's profile is +infinity over the exclusion zone.
C6_OmittedT_BIsSelfJoin ==
    (argT_B = None /\ pc \notin {"mstump", "InvalidInputError"}) =>
        /\ T_B = T_A
        /\ ignore_trivial
        /\ pc = "emit" =>
              \A j \in 0..(k - 1) :
                  (i - (m + 3) \div 4 <= j /\ j <= i + (m + 3) \div 4)
                      => D[j] = Inf

\* A row of a call without T_B that passed ignore_trivial = False.
C6_Witness ==
    /\ argT_B = None
    /\ ~argIgnore
    /\ m >= 2
    /\ pc = "emit"
    /\ i >= 2
    /\ \E j \in 0..(k - 1) : D[j] # Inf

\* C7. Lock-free parallel column update: whatever columns of row i have run,
\* in whatever order, the buffer the row reads still holds row i-1 and every
\* column that has run holds its final value, the dot product of row i.
C7_ColumnOrderIrrelevant ==
    pc = "cols" =>
        LET live == IF i % 2 = 0 THEN QT_even ELSE QT_odd
            prev == IF i % 2 = 0 THEN QT_odd ELSE QT_even
        IN  /\ \A j \in 0..(k - 1) : prev[j] = Direct(i - 1, j)
            /\ \A j \in (1..(k - 1)) \ pending : live[j] = Direct(i, j)

\* A row in which a column has run before the column to its left, and the
\* two buffers differ there.
C7_Witness ==
    /\ pc = "cols"
    /\ m >= 2
    /\ \E j \in 2..(k - 1) :
          /\ j \notin pending
          /\ (j - 1) \in pending
          /\ QT_even[j - 1] # QT_odd[j - 1]

\* C8. End-of-row barrier and sequential rows: the seeding of column 0 and
\* the kernel call of row i come after all column writes of row i, and the
\* columns of row i run only once every earlier row has been emitted and
\* before row i is.
C8_BarrierAndRowOrder ==
    /\ pc \in {"kernel", "emit"} => pending = {}
    /\ pc \in {"cols", "kernel", "emit"} =>
          \A r \in 0..(range_stop - range_start - 1) :
              profile_w[r] = (IF r < i - range_start THEN 1 ELSE 0)

\* The kernel call of a second row over several columns.
C8_Witness ==
    /\ pc = "kernel"
    /\ m >= 2
    /\ k >= 3
    /\ i > range_start

\* C10. Index safety: every access of a row i and column j stays inside its
\* array, and every output position of the engine is written exactly once.
\* Stated of every engine run, the driver's runs with 2 <= m <=
\* min(len(T_A), len(T_B)), range_start = 1 and range_stop = l among them.
C10_IndexSafety ==
    (range_stop = l /\ range_start >= 1) =>
        /\ pc \in {"cols", "kernel", "emit"} =>
              /\ (i - 1) \in DOMAIN T_B
              /\ (i + m - 1) \in DOMAIN T_B
              /\ i \in DOMAIN QT_first
              /\ i \in 0..(l - 1)
              /\ 0 \in DOMAIN QT_even /\ 0 \in DOMAIN QT_odd
              /\ (i - range_start) \in 0..(range_stop - range_start - 1)
              /\ (i - range_start) \in DOMAIN profile_w
              /\ \A j \in 1..(k - 1) :
                    /\ (j - 1) \in DOMAIN T_A
                    /\ (j + m - 1) \in DOMAIN T_A
                    /\ {j - 1, j} \subseteq DOMAIN QT_even
                    /\ {j - 1, j} \subseteq DOMAIN QT_odd
                    /\ {j - 1, j} \subseteq 0..(k - 1)
        /\ pc = "emit" => I \in DOMAIN D
        /\ pc \in {"return", "done"} =>
              /\ DOMAIN profile_w = 0..(range_stop - range_start - 1)
              /\ \A r \in DOMAIN profile_w : profile_w[r] = 1
        /\ pc = "done" => \A r \in DOMAIN out_w : out_w[r] = 1

\* The last row of a driver run over several rows and columns.
C10_Witness ==
    /\ out_w # <<>>
    /\ m >= 2
    /\ range_start = 1
    /\ range_stop = l
    /\ pc = "emit"
    /\ i = l - 1
    /\ i >= 3
    /\ k >= 3

\* The exclusion zone of row i, and the columns left and right of it.
ZoneCols == {j \in 0..(k - 1) : i - excl_zone <= j /\ j <= i + excl_zone}
LeftCols == {j \in 0..(k - 1) : j < i - excl_zone}
RightCols == {j \in 0..(k - 1) : j > i + excl_zone}

\* j is the lowest-index minimiser of D over the columns S.
LowestMin(j, S) ==
    /\ j \in S
    /\ \A c \in S : D[j] <= D[c] /\ (c < j => D[c] > D[j])

\* A row of a self-join on a window length the driver is meant to accept.
SelfJoinRow == pc = "emit" /\ ignore_trivial /\ T_A = T_B /\ m >= 2

\* C2. Exclusion-zone masking: in a self-join no returned index (the best I,
\* the left IL when not -1, the right IR when not -1) lies in
\* [i - zone, i + zone], and I is never i.
C2_NoIndexInZone ==
    SelfJoinRow =>
        /\ I \notin ZoneCols
        /\ I # i
        /\ IL # -1 => IL \notin ZoneCols
        /\ IR # -1 => IR \notin ZoneCols

\* C3. Left/right consistency: IL is -1 or 0 <= IL < i, IR is -1 or
\* i < IR < k, and both are -1 on every row of an AB-join.
C3_LeftRightConsistency ==
    pc = "emit" =>
        /\ IL = -1 \/ (0 <= IL /\ IL < i)
        /\ IR = -1 \/ (i < IR /\ IR < k)
        /\ ~ignore_trivial => (IL = -1 /\ IR = -1)

\* A self-join row with a neighbour on each side, the best match being the
\* right one.
C3_Witness ==
    /\ SelfJoinRow
    /\ IL # -1
    /\ IR # -1
    /\ I = IR

\* C5. Best-match selection: I is the lowest column at which the masked
\* profile D attains its minimum, and P is the square root of D[I].
C5_LowestArgmin ==
    pc = "emit" =>
        /\ LowestMin(I, 0..(k - 1))
        /\ IF D[I] = Inf THEN P = Inf ELSE (P >= 0 /\ P * P = D[I])

\* A row whose minimum is non-zero, is attained twice, and not at column 0.
C5_Witness ==
    /\ pc = "emit"
    /\ m >= 2
    /\ I > 0
    /\ D[I] = 4
    /\ P = 2
    /\ \E j \in (I + 1)..(k - 1) : D[j] = D[I]

\* C9, as claimed: in a self-join row, for any distances of the kernel, a
\* side's index is -1 only when that side has no column outside the zone
\* (left: i <= zone; right: i + zone >= k - 1), and a side with a column
\* outside the zone returns the lowest-index minimiser among its columns
\* outside the zone.
C9_SidesSymmetric ==
    SelfJoinRow =>
        /\ IL = -1 => i <= excl_zone
        /\ IR = -1 => i + excl_zone >= k - 1
        /\ LeftCols # {} => LowestMin(IL, LeftCols)
        /\ RightCols # {} => LowestMin(IR, RightCols)

\* C9, amended: the left side is as claimed; the right index is -1 only when
\* i + zone >= k - 1 or every column right of the zone holds +infinity, and
\* it is the lowest-index minimiser among the columns right of the zone
\* whenever one of them holds a finite distance.
C9_RightNeedsFinite ==
    SelfJoinRow =>
        /\ IL = -1 => i <= excl_zone
        /\ LeftCols # {} => LowestMin(IL, LeftCols)
        /\ IR = -1 =>
              (i + excl_zone >= k - 1 \/ \A c \in RightCols : D[c] = Inf)
        /\ (\E c \in RightCols : D[c] # Inf) => LowestMin(IR, RightCols)

\* A row with two columns right of the zone, the minimum at the second.
C9_Witness ==
    /\ SelfJoinRow
    /\ Cardinality(RightCols) >= 2
    /\ IR \in RightCols
    /\ \E c \in RightCols : c < IR /\ D[c] > D[IR]

====
